---- MODULE Spec2Model ----
(***************************************************************************)
(* One-time token lifecycle of snap-hub: storeToken, checkTokenValidity,   *)
(* verifyAndConsumeToken, getTokenStats and the cleanup script, all acting *)
(* on the one_time_tokens and sessions tables of one shared database.      *)
(*                                                                         *)
(* Instants are whole seconds.  A lifecycle call is a request c \in Calls; *)
(* every store statement of a call is one atomic step, so statements of    *)
(* different calls (issued by any number of server processes) interleave   *)
(* freely with each other, with the clock and with the cleanup jobs.       *)
(***************************************************************************)
EXTENDS Integers, Sequences, FiniteSets, TLC

----------------------------------------------------------------------------
(* Bounds of the model *)

MaxCalls == 2
MaxStores == 2
StatsCalls == 1

----------------------------------------------------------------------------
(* Program constants *)

ExpectedLength == 16
EntropyBytes == 12
HexLength == 64
DefaultExpiration == 60 * 60
RetentionWindow == 30 * 24 * 60 * 60

NULL == 0 - 1

Base64UrlChars ==
    { "A","B","C","D","E","F","G","H","I","J","K","L","M",
      "N","O","P","Q","R","S","T","U","V","W","X","Y","Z",
      "a","b","c","d","e","f","g","h","i","j","k","l","m",
      "n","o","p","q","r","s","t","u","v","w","x","y","z",
      "0","1","2","3","4","5","6","7","8","9","_","-" }

----------------------------------------------------------------------------
(* Token codec *)

TokA == << "A","b","C","1","2","3","d","E","f","4","5","6","G","h","I","7" >>
TokB == << "z","Z","-","_","0","9","a","A","y","Y","x","X","w","W","v","V" >>
TokPlus == << "i","n","v","a","l","i","d","+","f","o","r","m","a","t","/","t" >>

RawTokens == { TokA, TokB, TokPlus }

(* The tokens consumers present: a valid one and a malformed one.  TokB is *)
(* issued and stored, and never presented.                                 *)
Presented == { TokA, TokPlus }

(* Mutant: the character set test left out. *)
validateTokenFormat_LengthOnly(token) == Len(token) = ExpectedLength

validateTokenFormat(token) ==
    IF Len(token) # ExpectedLength
    THEN FALSE
    ELSE \A i \in 1..Len(token) : token[i] \in Base64UrlChars

(* The raw token as the text the consumer sends. *)
RawText(token) ==
    CASE token = TokA -> "AbC123dEf456GhI7"
      [] token = TokB -> "zZ-_09aAyYxXwWvV"
      [] token = TokPlus -> "invalid+format/t"
      [] OTHER -> "other"

(* Mutant: no hashing; the digest is the raw token itself. *)
hashToken_Identity(token) == RawText(token)

(* Mutant: the two well-formed sample tokens have the same digest. *)
hashToken_Collides(token) ==
    CASE token = TokPlus -> "sha256:31aa"
      [] OTHER -> "sha256:7c1e"

(* SHA-256 is taken as a fixed one-to-one table on the sample tokens. *)
hashToken(token) ==
    CASE token = TokA -> "sha256:7c1e"
      [] token = TokB -> "sha256:e90b"
      [] token = TokPlus -> "sha256:31aa"
      [] OTHER -> "sha256:f4d2"

Digests == { hashToken(t) : t \in { u \in RawTokens : validateTokenFormat(u) } }

(* Buffer.toString('base64url'): the 64 characters in the order of their *)
(* six-bit values.                                                         *)
Base64UrlAlphabet ==
    << "A","B","C","D","E","F","G","H","I","J","K","L","M",
       "N","O","P","Q","R","S","T","U","V","W","X","Y","Z",
       "a","b","c","d","e","f","g","h","i","j","k","l","m",
       "n","o","p","q","r","s","t","u","v","w","x","y","z",
       "0","1","2","3","4","5","6","7","8","9","-","_" >>

(* Mutant: the base64 alphabet, with + and / for the last two values. *)
toBase64Url_Base64(bytes) ==
    LET Group(g) == bytes[3 * g - 2] * 65536 + bytes[3 * g - 1] * 256 + bytes[3 * g]
        Sextet(g, k) == (Group(g) \div (64 ^ (3 - k))) % 64
        Char(v) == IF v = 62 THEN "+" ELSE IF v = 63 THEN "/" ELSE Base64UrlAlphabet[v + 1]
    IN  [ i \in 1..(4 * (Len(bytes) \div 3)) |->
            Char(Sextet(((i - 1) \div 4) + 1, (i - 1) % 4)) ]

(* Three bytes give four characters; the byte strings here have a length *)
(* that is a multiple of three, so there is no partial group.            *)
toBase64Url(bytes) ==
    LET Group(g) == bytes[3 * g - 2] * 65536 + bytes[3 * g - 1] * 256 + bytes[3 * g]
        Sextet(g, k) == (Group(g) \div (64 ^ (3 - k))) % 64
    IN  [ i \in 1..(4 * (Len(bytes) \div 3)) |->
            Base64UrlAlphabet[Sextet(((i - 1) \div 4) + 1, (i - 1) % 4) + 1] ]

(* What crypto.randomBytes(12) may return: the bytes of the two sample *)
(* tokens, all zero bits and all one bits.                             *)
BytesA == << 1, 176, 181, 219, 119, 68, 127, 142, 122, 26, 18, 59 >>
BytesB == << 205, 159, 191, 211, 214, 128, 201, 140, 87, 193, 107, 213 >>
BytesLow == [ i \in 1..EntropyBytes |-> 0 ]
BytesHigh == [ i \in 1..EntropyBytes |-> 255 ]
SampleBytes == { BytesA, BytesB, BytesLow, BytesHigh }

(* generateOneTimeToken(), with the random bytes it draws as a parameter. *)
generateOneTimeToken(randomBytes) ==
    LET token == toBase64Url(randomBytes)
    IN  [ threw |-> Len(token) # ExpectedLength, token |-> token ]

(* Mutant: a falsy timeout, zero included, takes the default. *)
createTokenExpiration_FalsyDefault(timeoutMs, now) ==
    LET timeout == IF timeoutMs = NULL \/ timeoutMs = 0
                   THEN DefaultExpiration ELSE timeoutMs
    IN  now + timeout

(* createTokenExpiration(timeoutMs), with Date.now() as a parameter; an *)
(* absent timeoutMs is NULL.                                            *)
createTokenExpiration(timeoutMs, now) ==
    LET timeout == IF timeoutMs = NULL THEN DefaultExpiration ELSE timeoutMs
    IN  now + timeout

generateTokenForUser(userId, expirationMs, randomBytes, now) ==
    LET generated == generateOneTimeToken(randomBytes)
        token == generated.token
        hash == hashToken(token)
        expiresAt == createTokenExpiration(expirationMs, now)
    IN  [ threw |-> generated.threw, token |-> token, hash |-> hash,
          userId |-> userId, expiresAt |-> expiresAt ]

(* The candidates handed to validateTokenFormat. *)
Tok15 == SubSeq(TokA, 1, ExpectedLength - 1)
Tok17 == Append(TokA, "8")
TokPad == [ TokA EXCEPT ![ExpectedLength] = "=" ]
TokSpace == [ TokA EXCEPT ![ExpectedLength - 1] = " " ]
Candidates ==
    { TokA, TokB, TokPlus, Tok15, Tok17, TokPad, TokSpace, << >> }
        \cup { generateOneTimeToken(b).token : b \in SampleBytes }

(* The digest as digest('hex') prints it: 64 lower-case hex characters. *)
DigestHex(tokenHash) ==
    LET quad == CASE tokenHash = "sha256:7c1e" -> << "7","c","1","e" >>
                  [] tokenHash = "sha256:e90b" -> << "e","9","0","b" >>
                  [] tokenHash = "sha256:31aa" -> << "3","1","a","a" >>
                  [] OTHER -> << "f","4","d","2" >>
    IN  [ i \in 1..HexLength |-> quad[((i - 1) % 4) + 1] ]

HexValue(ch) ==
    CASE ch = "0" -> 0 [] ch = "1" -> 1 [] ch = "2" -> 2 [] ch = "3" -> 3
      [] ch = "4" -> 4 [] ch = "5" -> 5 [] ch = "6" -> 6 [] ch = "7" -> 7
      [] ch = "8" -> 8 [] ch = "9" -> 9
      [] ch \in { "a", "A" } -> 10 [] ch \in { "b", "B" } -> 11
      [] ch \in { "c", "C" } -> 12 [] ch \in { "d", "D" } -> 13
      [] ch \in { "e", "E" } -> 14 [] ch \in { "f", "F" } -> 15
      [] OTHER -> NULL

(* Buffer.from(chars, 'hex'): one byte per pair of hex characters, up to *)
(* the first pair that is not one; an odd last character is dropped.     *)
BufferFromHex(chars) ==
    LET pairs == Len(chars) \div 2
        IsByte(k) == HexValue(chars[2 * k - 1]) # NULL /\ HexValue(chars[2 * k]) # NULL
        n == CHOOSE m \in 0..pairs :
                 /\ \A k \in 1..m : IsByte(k)
                 /\ m = pairs \/ ~ IsByte(m + 1)
    IN  [ k \in 1..n |-> 16 * HexValue(chars[2 * k - 1]) + HexValue(chars[2 * k]) ]

(* crypto.timingSafeEqual(a, b): a RangeError when the byte lengths differ. *)
timingSafeEqual(a, b) ==
    IF Len(a) # Len(b)
    THEN [ threw |-> TRUE, value |-> FALSE ]
    ELSE [ threw |-> FALSE, value |-> a = b ]

verifyTokenHash(token, storedHash) ==
    LET tokenHash == DigestHex(hashToken(token))
    IN  timingSafeEqual(BufferFromHex(tokenHash), BufferFromHex(storedHash))

(* The stored hashes handed to verifyTokenHash: the digests of the two   *)
(* sample tokens, and strings that are not a digest('hex') output.      *)
HexShort == << "a", "b", "c", "d" >>
HexUpper == [ i \in 1..HexLength |-> << "7","C","1","E" >>[((i - 1) % 4) + 1] ]
HexTrailing == Append(DigestHex(hashToken(TokA)), "g")
HexNone == [ i \in 1..HexLength |-> "z" ]
StoredHashes ==
    { DigestHex(hashToken(TokA)), DigestHex(hashToken(TokB)),
      HexShort, HexUpper, HexTrailing, HexNone, << >> }

----------------------------------------------------------------------------
(* Database *)

Users == { 1, 2 }
UnknownUser == 999999
Calls == 1..MaxCalls
Jobs == { "daily", "hourly" }
TTLs == { 0, DefaultExpiration, 2 * RetentionWindow }
(* The instants at which the model looks at the clock: the start, and just *)
(* past the retention window.                                             *)
Instants == { 0, RetentionWindow + 1 }

VARIABLES
    clock,      \* the wall clock read by new Date() and by the database
    tokens,     \* rows of one_time_tokens
    sessions,   \* rows of sessions
    nextRid,    \* serial of the next inserted token row (history: row identity)
    call,       \* the verifyAndConsumeToken / checkTokenValidity requests
    sweep,      \* the cleanup run of each cron job
    storeRet,   \* what the last storeToken call returned
    stats,      \* what the last getTokenStats call returned
    streak,     \* history: check calls issued since the last step of anything else
    thrown,     \* the functions that have let an exception escape to their caller
    swept,      \* history: redeem calls whose row cleanup deleted before their update
    base,       \* history: the tables one cleanup run leaves, from the hourly run's start
    codec       \* the last call of a token codec function, with its result

vars ==
    << clock, tokens, sessions, nextRid, call, sweep, storeRet, stats, streak,
       thrown, swept, base, codec >>

(* select ... from one_time_tokens where token_hash = tokenHash limit 1 *)
SelectByHash(store, tokenHash) == { r \in store : r.tokenHash = tokenHash }

(* Mutant: the read marks the row it finds as used. *)
AfterSelect_Consumes(store, tokenHash) ==
    { IF r.tokenHash = tokenHash THEN [ r EXCEPT !.used = TRUE, !.usedAt = 0 ] ELSE r
      : r \in store }

(* A select statement leaves the table as it is. *)
AfterSelect(store, tokenHash) == store

(* Mutant: the where clause without the used = false condition. *)
UpdateWhere_IgnoreUsed(r, tokenHash, now) ==
    /\ r.tokenHash = tokenHash
    /\ r.expiresAt > now

(* Mutant: the where clause also takes a row that expires at now. *)
UpdateWhere_InclusiveExpiry(r, tokenHash, now) ==
    /\ r.tokenHash = tokenHash
    /\ r.used = FALSE
    /\ r.expiresAt >= now

(* Mutant: the where clause without the expiry condition. *)
UpdateWhere_IgnoreExpiry(r, tokenHash, now) ==
    /\ r.tokenHash = tokenHash
    /\ r.used = FALSE

(* The where clause of the conditional update. *)
UpdateWhere(r, tokenHash, now) ==
    /\ r.tokenHash = tokenHash
    /\ r.used = FALSE
    /\ r.expiresAt > now

(* Mutant: the set clause without usedAt. *)
UpdateSet_FlagOnly(r, now) == [r EXCEPT !.used = TRUE]

(* Mutant: the set clause also pushes the expiry one hour on. *)
UpdateSet_ExtendsExpiry(r, now) ==
    [r EXCEPT !.used = TRUE, !.usedAt = now, !.expiresAt = now + DefaultExpiration]

(* The set clause of the conditional update. *)
UpdateSet(r, now) == [r EXCEPT !.used = TRUE, !.usedAt = now]

(* Mutant: returning gives back the row with the digest, touched or not. *)
UpdateReturning_AnyRow(store, tokenHash, now) == SelectByHash(store, tokenHash)

(* update ... returning: the rows the update touched *)
UpdateReturning(store, tokenHash, now) ==
    { r \in store : UpdateWhere(r, tokenHash, now) }

AfterUpdate(store, tokenHash, now) ==
    { IF UpdateWhere(r, tokenHash, now) THEN UpdateSet(r, now) ELSE r : r \in store }

(* Mutant: the primary key on token_hash left out. *)
InsertAllowed_NoPrimaryKey(store, tokenHash, userId) == userId \in Users

(* Mutant: the foreign key on user_id left out. *)
InsertAllowed_NoForeignKey(store, tokenHash, userId) ==
    SelectByHash(store, tokenHash) = {}

(* Constraints of an insert: primary key on token_hash, foreign key on user_id. *)
InsertAllowed(store, tokenHash, userId) ==
    /\ SelectByHash(store, tokenHash) = {}
    /\ userId \in Users

NewRow(tokenHash, userId, expiresAt, createdAt, rid) ==
    [ tokenHash |-> tokenHash, userId |-> userId, createdAt |-> createdAt,
      expiresAt |-> expiresAt, usedAt |-> NULL, used |-> FALSE, rid |-> rid ]

AfterInsert(store, tokenHash, userId, expiresAt, createdAt, rid) ==
    store \cup { NewRow(tokenHash, userId, expiresAt, createdAt, rid) }

----------------------------------------------------------------------------
(* TokenVerificationResult *)

Success(userId) == [ success |-> TRUE, userId |-> userId, error |-> "NONE" ]
Failure(error) == [ success |-> FALSE, userId |-> NULL, error |-> error ]
Pending == [ success |-> FALSE, userId |-> NULL, error |-> "PENDING" ]

(* Mutant: the expiry test placed before the used test. *)
Diagnose_ExpiredFirst(existingToken, now) ==
    IF existingToken = {}
    THEN Failure("NOT_FOUND")
    ELSE LET tokenRecord == CHOOSE r \in existingToken : TRUE
         IN  IF tokenRecord.expiresAt <= now
             THEN Failure("EXPIRED")
             ELSE IF tokenRecord.used
                  THEN Failure("ALREADY_USED")
                  ELSE Failure("DATABASE_ERROR")

(* Mutant: the used test left out. *)
Diagnose_NoUsedTest(existingToken, now) ==
    IF existingToken = {}
    THEN Failure("NOT_FOUND")
    ELSE LET tokenRecord == CHOOSE r \in existingToken : TRUE
         IN  IF tokenRecord.expiresAt <= now
             THEN Failure("EXPIRED")
             ELSE Failure("DATABASE_ERROR")

(* Mutant: a missing row reported like an unusable one. *)
Diagnose_MissingAsExpired(existingToken, now) ==
    IF existingToken = {}
    THEN Failure("EXPIRED")
    ELSE LET tokenRecord == CHOOSE r \in existingToken : TRUE
         IN  IF tokenRecord.used
             THEN Failure("ALREADY_USED")
             ELSE IF tokenRecord.expiresAt <= now
                  THEN Failure("EXPIRED")
                  ELSE Failure("DATABASE_ERROR")

(* The branch of verifyAndConsumeToken taken when the update touched no row. *)
Diagnose(existingToken, now) ==
    IF existingToken = {}
    THEN Failure("NOT_FOUND")
    ELSE LET tokenRecord == CHOOSE r \in existingToken : TRUE
         IN  IF tokenRecord.used
             THEN Failure("ALREADY_USED")
             ELSE IF tokenRecord.expiresAt <= now
                  THEN Failure("EXPIRED")
                  ELSE Failure("DATABASE_ERROR")

(* Mutant: expiry tested with < instead of <=. *)
CheckDecision_StrictExpiry(result, now) ==
    IF result = {}
    THEN Failure("NOT_FOUND")
    ELSE LET tokenRecord == CHOOSE r \in result : TRUE
         IN  IF tokenRecord.used
             THEN Failure("ALREADY_USED")
             ELSE IF tokenRecord.expiresAt < now
                  THEN Failure("EXPIRED")
                  ELSE Success(tokenRecord.userId)

(* The decision of checkTokenValidity on the row it read. *)
CheckDecision(result, now) ==
    IF result = {}
    THEN Failure("NOT_FOUND")
    ELSE LET tokenRecord == CHOOSE r \in result : TRUE
         IN  IF tokenRecord.used
             THEN Failure("ALREADY_USED")
             ELSE IF tokenRecord.expiresAt <= now
                  THEN Failure("EXPIRED")
                  ELSE Success(tokenRecord.userId)

----------------------------------------------------------------------------
(* Initial state: an empty token table, two sessions, nothing in flight. *)

NoStats == [ userId |-> NULL, total |-> 0, used |-> 0, expired |-> 0, active |-> 0 ]

(* Mutant: a failed statement of a verify or check call reported as a      *)
(* missing token.                                                          *)
Catch_NotFound(fn) ==
    CASE fn = "verifyAndConsumeToken" ->
             [ rethrown |-> FALSE, value |-> Failure("NOT_FOUND") ]
      [] fn = "checkTokenValidity" ->
             [ rethrown |-> FALSE, value |-> Failure("NOT_FOUND") ]
      [] fn = "storeToken" ->
             [ rethrown |-> FALSE, value |-> FALSE ]
      [] fn = "getTokenStats" ->
             [ rethrown |-> FALSE, value |-> NoStats ]
      [] fn = "cleanupExpiredTokensAndSessions" ->
             [ rethrown |-> TRUE, value |-> NULL ]

(* Mutant: every catch block throws the error again. *)
Catch_Rethrows(fn) == [ rethrown |-> TRUE, value |-> NULL ]

(* What each function does when one of its store statements fails: the     *)
(* catch block turns the error into a return value, or throws it again.    *)
Catch(fn) ==
    CASE fn = "verifyAndConsumeToken" ->
             [ rethrown |-> FALSE, value |-> Failure("DATABASE_ERROR") ]
      [] fn = "checkTokenValidity" ->
             [ rethrown |-> FALSE, value |-> Failure("DATABASE_ERROR") ]
      [] fn = "storeToken" ->
             [ rethrown |-> FALSE, value |-> FALSE ]
      [] fn = "getTokenStats" ->
             [ rethrown |-> FALSE, value |-> NoStats ]
      [] fn = "cleanupExpiredTokensAndSessions" ->
             [ rethrown |-> TRUE, value |-> NULL ]

(* No cleanup result on record, and no codec call made yet. *)
NoBase == [ now |-> NULL, removed |-> {}, tokens |-> {}, sessions |-> {} ]
NoCodec == [ fn |-> "none" ]

NewCall ==
    [ op |-> "none", pc |-> "new", token |-> << >>, now |-> NULL,
      result |-> Pending, atUpdate |-> {}, atSelect |-> {} ]

InitSessions ==
    { [ sessionId |-> "s1", userId |-> 1, expiresAt |-> 0 ],
      [ sessionId |-> "s2", userId |-> 2, expiresAt |-> DefaultExpiration ] }

Init ==
    /\ clock = 0
    /\ tokens = {}
    /\ sessions = InitSessions
    /\ nextRid = 1
    /\ call = [ c \in Calls |-> NewCall ]
    /\ sweep = [ j \in Jobs |-> [ pc |-> "idle", now |-> NULL ] ]
    /\ storeRet = [ returned |-> FALSE, value |-> FALSE ]
    /\ stats = NoStats
    /\ streak = {}
    /\ thrown = {}
    /\ swept = {}
    /\ base = NoBase
    /\ codec = NoCodec

----------------------------------------------------------------------------
(* The clock *)

Tick ==
    /\ \E t \in Instants : t > clock /\ clock' = t
    /\ streak' = {}
    /\ base' = NoBase
    /\ UNCHANGED << tokens, sessions, nextRid, call, sweep, storeRet, stats, thrown, swept, codec >>

----------------------------------------------------------------------------
(* storeToken(tokenHash, userId, expiresAt): one insert; any error is caught *)
(* and turned into the return value false.                                   *)

storeToken(tokenHash, userId, expiresAt) ==
    /\ nextRid <= MaxStores
    /\ IF InsertAllowed(tokens, tokenHash, userId)
       THEN /\ tokens' = AfterInsert(tokens, tokenHash, userId, expiresAt, clock, nextRid)
            /\ nextRid' = nextRid + 1
            /\ storeRet' = [ returned |-> TRUE, value |-> TRUE ]
       ELSE /\ storeRet' = [ returned |-> TRUE, value |-> FALSE ]
            /\ UNCHANGED << tokens, nextRid >>
    /\ streak' = {}
    /\ base' = IF tokens' = tokens THEN base ELSE NoBase
    /\ UNCHANGED << clock, sessions, call, sweep, stats, thrown, swept, codec >>

(* The issuer's requests: both sample tokens are issued to user 1, user 2   *)
(* is issued none, and one request names a user that does not exist.       *)
Issued ==
    { req \in Digests \X (Users \cup { UnknownUser }) :
        \/ req = << hashToken(TokA), 1 >>
        \/ req = << hashToken(TokB), 1 >>
        \/ req = << hashToken(TokB), UnknownUser >> }

StoreToken ==
    \E req \in Issued, ttl \in TTLs : storeToken(req[1], req[2], clock + ttl)

----------------------------------------------------------------------------
(* verifyAndConsumeToken(token) *)

IsNext(c) ==
    /\ call[c].pc = "new"
    /\ IF c = 1 THEN TRUE ELSE call[c - 1].pc # "new"

(* Lines up to the first await: format check, digest, now = new Date(). *)
RedeemInvoke(c, token) ==
    /\ IsNext(c)
    /\ IF ~ validateTokenFormat(token)
       THEN call' = [ call EXCEPT ![c] =
                [ @ EXCEPT !.op = "redeem", !.pc = "returned", !.token = token,
                           !.result = Failure("INVALID_FORMAT") ] ]
       ELSE call' = [ call EXCEPT ![c] =
                [ @ EXCEPT !.op = "redeem", !.pc = "update", !.token = token,
                           !.now = clock ] ]
    /\ streak' = {}
    /\ UNCHANGED << clock, tokens, sessions, nextRid, sweep, storeRet, stats, thrown, swept, base, codec >>

(* Mutant: an update that matched no row is sent again. *)
RedeemUpdate_Retries(c) ==
    /\ call[c].op = "redeem" /\ call[c].pc = "update"
    /\ LET tokenHash == hashToken(call[c].token)
           now == call[c].now
           result == UpdateReturning(tokens, tokenHash, now)
       IN  /\ tokens' = AfterUpdate(tokens, tokenHash, now)
           /\ IF result = {}
              THEN call' = call
              ELSE LET consumedToken == CHOOSE r \in result : TRUE
                   IN  call' = [ call EXCEPT ![c] =
                           [ @ EXCEPT !.pc = "returned",
                                      !.result = Success(consumedToken.userId),
                                      !.atUpdate = SelectByHash(tokens, tokenHash) ] ]
    /\ streak' = {}
    /\ base' = IF tokens' = tokens THEN base ELSE NoBase
    /\ UNCHANGED << clock, sessions, nextRid, sweep, storeRet, stats, thrown, swept, codec >>

(* The conditional update with returning, executed by the database in one step. *)
RedeemUpdate(c) ==
    /\ call[c].op = "redeem" /\ call[c].pc = "update"
    /\ LET tokenHash == hashToken(call[c].token)
           now == call[c].now
           result == UpdateReturning(tokens, tokenHash, now)
       IN  /\ tokens' = AfterUpdate(tokens, tokenHash, now)
           /\ IF result = {}
              THEN call' = [ call EXCEPT ![c] =
                       [ @ EXCEPT !.pc = "select",
                                  !.atUpdate = SelectByHash(tokens, tokenHash) ] ]
              ELSE LET consumedToken == CHOOSE r \in result : TRUE
                   IN  call' = [ call EXCEPT ![c] =
                           [ @ EXCEPT !.pc = "returned",
                                      !.result = Success(consumedToken.userId),
                                      !.atUpdate = SelectByHash(tokens, tokenHash) ] ]
    /\ streak' = {}
    /\ base' = IF tokens' = tokens THEN base ELSE NoBase
    /\ UNCHANGED << clock, sessions, nextRid, sweep, storeRet, stats, thrown, swept, codec >>

(* The disambiguating read after an update that touched no row. *)
RedeemSelect(c) ==
    /\ call[c].op = "redeem" /\ call[c].pc = "select"
    /\ LET tokenHash == hashToken(call[c].token)
           existingToken == SelectByHash(tokens, tokenHash)
       IN  /\ tokens' = AfterSelect(tokens, tokenHash)
           /\ call' = [ call EXCEPT ![c] =
                  [ @ EXCEPT !.pc = "returned",
                             !.result = Diagnose(existingToken, call[c].now),
                             !.atSelect = existingToken ] ]
    /\ streak' = {}
    /\ UNCHANGED << clock, sessions, nextRid, sweep, storeRet, stats, thrown, swept, base, codec >>

VerifyAndConsumeToken(ids) ==
    \/ \E c \in ids, token \in Presented : RedeemInvoke(c, token)
    \/ \E c \in ids : RedeemUpdate(c)
    \/ \E c \in ids : RedeemSelect(c)

----------------------------------------------------------------------------
(* checkTokenValidity(token) *)

(* Lines up to the await: format check, digest, now = new Date(). *)
CheckInvoke(c, token) ==
    /\ IsNext(c)
    /\ IF ~ validateTokenFormat(token)
       THEN /\ call' = [ call EXCEPT ![c] =
                  [ @ EXCEPT !.op = "check", !.pc = "returned", !.token = token,
                             !.result = Failure("INVALID_FORMAT") ] ]
       ELSE /\ call' = [ call EXCEPT ![c] =
                  [ @ EXCEPT !.op = "check", !.pc = "lookup", !.token = token,
                             !.now = clock ] ]
    /\ streak' = streak \cup { c }
    /\ UNCHANGED << clock, tokens, sessions, nextRid, sweep, storeRet, stats, thrown, swept, base, codec >>

(* The select and the decision taken on its result. *)
CheckLookup(c) ==
    /\ call[c].op = "check" /\ call[c].pc = "lookup"
    /\ LET tokenHash == hashToken(call[c].token)
           result == SelectByHash(tokens, tokenHash)
       IN  /\ tokens' = AfterSelect(tokens, tokenHash)
           /\ call' = [ call EXCEPT ![c] =
                  [ @ EXCEPT !.pc = "returned",
                             !.result = CheckDecision(result, call[c].now),
                             !.atSelect = result ] ]
    /\ UNCHANGED << clock, sessions, nextRid, sweep, storeRet, stats, streak, thrown, swept, base, codec >>

CheckTokenValidity(ids) ==
    \/ \E c \in ids, token \in Presented : CheckInvoke(c, token)
    \/ \E c \in ids : CheckLookup(c)

----------------------------------------------------------------------------
(* getTokenStats(userId): one aggregate query, evaluated by the database at *)
(* its CURRENT_TIMESTAMP.                                                   *)

(* Mutant: expired counts every row past its expiry, used or not. *)
CountRows_ExpiredIncludesUsed(store, userId) ==
    LET rows == { r \in store : r.userId = userId }
    IN  [ userId |-> userId,
          total |-> Cardinality(rows),
          used |-> Cardinality({ r \in rows : r.used = TRUE }),
          expired |-> Cardinality({ r \in rows : r.expiresAt <= clock }),
          active |-> Cardinality({ r \in rows : r.expiresAt > clock /\ r.used = FALSE }) ]

CountRows(store, userId) ==
    LET rows == { r \in store : r.userId = userId }
    IN  [ userId |-> userId,
          total |-> Cardinality(rows),
          used |-> Cardinality({ r \in rows : r.used = TRUE }),
          expired |-> Cardinality({ r \in rows : r.expiresAt <= clock /\ r.used = FALSE }),
          active |-> Cardinality({ r \in rows : r.expiresAt > clock /\ r.used = FALSE }) ]

getTokenStats(userId) ==
    /\ stats' = CountRows(tokens, userId)
    /\ streak' = {}
    /\ UNCHANGED << clock, tokens, sessions, nextRid, call, sweep, storeRet, thrown, swept, base, codec >>

GetTokenStats == \E userId \in Users \cup { UnknownUser } : getTokenStats(userId)

----------------------------------------------------------------------------
(* cleanupExpiredTokensAndSessions(), run by a cron job: now = new Date(),  *)
(* then three delete statements, one after the other.                       *)

(* Mutant: the delete takes one expired row per statement. *)
ExpiredTokens_OneRow(store, now) ==
    LET expired == { r \in store : r.expiresAt < now }
    IN  IF expired = {}
        THEN {}
        ELSE { CHOOSE r \in expired : \A q \in expired : r.rid <= q.rid }

(* Mutant: the delete also takes the rows that expire at now. *)
ExpiredTokens_Inclusive(store, now) == { r \in store : r.expiresAt <= now }

ExpiredTokens(store, now) == { r \in store : r.expiresAt < now }

ExpiredSessions(store, now) == { r \in store : r.expiresAt < now }

OldUsedTokens(store, now) ==
    LET thirtyDaysAgo == now - RetentionWindow
    IN  { r \in store : r.usedAt # NULL /\ r.usedAt < thirtyDaysAgo }

(* The tables after one whole run that reads now and meets no other      *)
(* statement: the three deletes, each applied to what the one before left. *)
SingleRun(store, sessionStore, now) ==
    LET afterExpired == store \ ExpiredTokens(store, now)
    IN  [ now |-> now,
          removed |-> ExpiredTokens(store, now) \cup OldUsedTokens(afterExpired, now),
          tokens |-> afterExpired \ OldUsedTokens(afterExpired, now),
          sessions |-> sessionStore \ ExpiredSessions(sessionStore, now) ]

(* History: the redeem calls that have read their now and not yet run their *)
(* update, and whose row is among the deleted ones.                        *)
AwaitingUpdate(deleted) ==
    { c \in Calls : /\ call[c].op = "redeem" /\ call[c].pc = "update"
                    /\ \E r \in deleted : r.tokenHash = hashToken(call[c].token) }

CleanupStart(j) ==
    /\ sweep[j].pc = "idle"
    /\ sweep' = [ sweep EXCEPT ![j] = [ pc |-> "expiredTokens", now |-> clock ] ]
    /\ streak' = {}
    /\ base' = IF j = "hourly" /\ base = NoBase
               THEN SingleRun(tokens, sessions, clock)
               ELSE base
    /\ UNCHANGED << clock, tokens, sessions, nextRid, call, storeRet, stats, thrown, swept, codec >>

CleanupExpiredTokens(j) ==
    /\ sweep[j].pc = "expiredTokens"
    /\ tokens' = tokens \ ExpiredTokens(tokens, sweep[j].now)
    /\ sweep' = [ sweep EXCEPT ![j].pc = "expiredSessions" ]
    /\ streak' = {}
    /\ swept' = swept \cup AwaitingUpdate(ExpiredTokens(tokens, sweep[j].now))
    /\ UNCHANGED << clock, sessions, nextRid, call, storeRet, stats, thrown, base, codec >>

CleanupExpiredSessions(j) ==
    /\ sweep[j].pc = "expiredSessions"
    /\ sessions' = sessions \ ExpiredSessions(sessions, sweep[j].now)
    /\ sweep' = [ sweep EXCEPT ![j].pc = "oldUsedTokens" ]
    /\ streak' = {}
    /\ UNCHANGED << clock, tokens, nextRid, call, storeRet, stats, thrown, swept, base, codec >>

CleanupOldUsedTokens(j) ==
    /\ sweep[j].pc = "oldUsedTokens"
    /\ tokens' = tokens \ OldUsedTokens(tokens, sweep[j].now)
    /\ sweep' = [ sweep EXCEPT ![j] = [ pc |-> "idle", now |-> NULL ] ]
    /\ streak' = {}
    /\ swept' = swept \cup AwaitingUpdate(OldUsedTokens(tokens, sweep[j].now))
    /\ UNCHANGED << clock, sessions, nextRid, call, storeRet, stats, thrown, base, codec >>

Cleanup(j) ==
    \/ CleanupStart(j)
    \/ CleanupExpiredTokens(j)
    \/ CleanupExpiredSessions(j)
    \/ CleanupOldUsedTokens(j)

----------------------------------------------------------------------------
(* The token codec functions: none of them is given a database client.  *)
(* codec records the function called, its arguments and its result.     *)

CodecCall(fn, args, result) ==
    /\ codec' = [ fn |-> fn, args |-> args, result |-> result ]
    /\ UNCHANGED << clock, tokens, sessions, nextRid, call, sweep, storeRet, stats,
                    streak, thrown, swept, base >>

GenerateOneTimeToken ==
    \E randomBytes \in SampleBytes :
        CodecCall("generateOneTimeToken", << randomBytes >>,
                  generateOneTimeToken(randomBytes))

ValidateTokenFormat ==
    \E token \in Candidates :
        CodecCall("validateTokenFormat", << token >>, validateTokenFormat(token))

(* The issuer asks for a token for a user, with or without a timeout. *)
GenerateTokenForUser ==
    \E userId \in Users, expirationMs \in TTLs \cup { NULL },
       randomBytes \in { BytesA, BytesB } :
        CodecCall("generateTokenForUser", << userId, expirationMs >>,
                  generateTokenForUser(userId, expirationMs, randomBytes, clock))

VerifyTokenHash ==
    \E token \in { TokA, TokB }, storedHash \in StoredHashes :
        CodecCall("verifyTokenHash", << token, storedHash >>,
                  verifyTokenHash(token, storedHash))

(* The issuer stores what generateTokenForUser last returned. *)
StoreIssued ==
    /\ codec.fn = "generateTokenForUser"
    /\ ~ codec.result.threw
    /\ storeToken(codec.result.hash, codec.result.userId, codec.result.expiresAt)

----------------------------------------------------------------------------
(* Failing store statements: the statement has no effect on the tables and *)
(* raises an error in the function that awaits it.                         *)

(* The update or the diagnostic read of verifyAndConsumeToken fails. *)
RedeemFails(c) ==
    /\ call[c].op = "redeem" /\ call[c].pc \in { "update", "select" }
    /\ LET caught == Catch("verifyAndConsumeToken")
       IN  IF caught.rethrown
           THEN /\ call' = [ call EXCEPT ![c] = [ @ EXCEPT !.pc = "thrown" ] ]
                /\ thrown' = thrown \cup { "verifyAndConsumeToken" }
           ELSE /\ call' = [ call EXCEPT ![c] =
                      [ @ EXCEPT !.pc = "returned", !.result = caught.value ] ]
                /\ thrown' = thrown
    /\ streak' = {}
    /\ UNCHANGED << clock, tokens, sessions, nextRid, sweep, storeRet, stats, swept, base, codec >>

(* The select of checkTokenValidity fails. *)
CheckFails(c) ==
    /\ call[c].op = "check" /\ call[c].pc = "lookup"
    /\ LET caught == Catch("checkTokenValidity")
       IN  IF caught.rethrown
           THEN /\ call' = [ call EXCEPT ![c] = [ @ EXCEPT !.pc = "thrown" ] ]
                /\ thrown' = thrown \cup { "checkTokenValidity" }
           ELSE /\ call' = [ call EXCEPT ![c] =
                      [ @ EXCEPT !.pc = "returned", !.result = caught.value ] ]
                /\ thrown' = thrown
    /\ streak' = {}
    /\ UNCHANGED << clock, tokens, sessions, nextRid, sweep, storeRet, stats, swept, base, codec >>

(* The insert of storeToken fails for a reason other than a constraint. *)
StoreTokenFails ==
    /\ nextRid <= MaxStores
    /\ LET caught == Catch("storeToken")
       IN  IF caught.rethrown
           THEN /\ storeRet' = [ returned |-> FALSE, value |-> FALSE ]
                /\ thrown' = thrown \cup { "storeToken" }
           ELSE /\ storeRet' = [ returned |-> TRUE, value |-> caught.value ]
                /\ thrown' = thrown
    /\ streak' = {}
    /\ UNCHANGED << clock, tokens, sessions, nextRid, call, sweep, stats, swept, base, codec >>

(* The aggregate query of getTokenStats fails. *)
GetTokenStatsFails ==
    /\ \E userId \in Users :
           LET caught == Catch("getTokenStats")
           IN  IF caught.rethrown
               THEN /\ stats' = NoStats
                    /\ thrown' = thrown \cup { "getTokenStats" }
               ELSE /\ stats' = [ caught.value EXCEPT !.userId = userId ]
                    /\ thrown' = thrown
    /\ streak' = {}
    /\ UNCHANGED << clock, tokens, sessions, nextRid, call, sweep, storeRet, swept, base, codec >>

(* One of the three deletes of a cleanup run fails: the run ends there. *)
CleanupFails(j) ==
    /\ sweep[j].pc \in { "expiredTokens", "expiredSessions", "oldUsedTokens" }
    /\ sweep' = [ sweep EXCEPT ![j] = [ pc |-> "idle", now |-> NULL ] ]
    /\ thrown' = IF Catch("cleanupExpiredTokensAndSessions").rethrown
                 THEN thrown \cup { "cleanupExpiredTokensAndSessions" }
                 ELSE thrown
    /\ streak' = {}
    /\ UNCHANGED << clock, tokens, sessions, nextRid, call, storeRet, stats, swept, base, codec >>

----------------------------------------------------------------------------

NextNoSweep ==
    \/ Tick
    \/ StoreToken
    \/ VerifyAndConsumeToken(Calls)
    \/ CheckTokenValidity(Calls)

(* Every operation; at most StatsCalls verify or check calls are issued. *)
NextStats ==
    \/ Tick
    \/ StoreToken
    \/ VerifyAndConsumeToken(1..StatsCalls)
    \/ CheckTokenValidity(1..StatsCalls)
    \/ Cleanup("daily")
    \/ GetTokenStats

Next ==
    \/ NextNoSweep
    \/ Cleanup("daily")

(* Every operation, with the cleanup of one cron job. *)
Spec == Init /\ [][Next]_vars

(* The same without any cleanup run. *)
SpecNoSweep == Init /\ [][NextNoSweep]_vars

(* Every operation together with getTokenStats. *)
SpecStats == Init /\ [][NextStats]_vars

(* Every operation, each of whose store statements may fail. *)
NextFail ==
    \/ NextStats
    \/ \E c \in 1..StatsCalls : RedeemFails(c)
    \/ \E c \in 1..StatsCalls : CheckFails(c)
    \/ StoreTokenFails
    \/ GetTokenStatsFails
    \/ CleanupFails("daily")

SpecFail == Init /\ [][NextFail]_vars

(* The two cron jobs, each running the cleanup, next to the operations that *)
(* write the token table.                                                   *)
NextSweep ==
    \/ Tick
    \/ StoreToken
    \/ VerifyAndConsumeToken(1..StatsCalls)
    \/ Cleanup("daily")
    \/ Cleanup("hourly")

SpecSweep == Init /\ [][NextSweep]_vars

(* The lifecycle calls without cleanup, with a store that answers every *)
(* statement sent to it.                                                *)
NextLive ==
    \/ NextNoSweep
    \/ GetTokenStats

StoreAnswers ==
    \A c \in Calls :
        /\ WF_vars(RedeemUpdate(c))
        /\ WF_vars(RedeemSelect(c))
        /\ WF_vars(CheckLookup(c))

SpecLive == Init /\ [][NextLive]_vars /\ StoreAnswers

(* The issuer: the codec functions, and storeToken on what they return. *)
NextCodec ==
    \/ Tick
    \/ GenerateOneTimeToken
    \/ ValidateTokenFormat
    \/ GenerateTokenForUser
    \/ VerifyTokenHash
    \/ StoreIssued

SpecCodec == Init /\ [][NextCodec]_vars

(* The operations of token-verification started on a table that is empty or *)
(* holds the row of a token stored for user 1 at the start with the default *)
(* lifetime and redeemed at once.                                           *)
ConsumedRow ==
    UpdateSet(NewRow(hashToken(TokA), 1, DefaultExpiration, 0, 1), 0)

InitAgree ==
    /\ clock = 0
    /\ tokens \in { {}, { ConsumedRow } }
    /\ nextRid = IF tokens = {} THEN 1 ELSE 2
    /\ sessions = InitSessions
    /\ call = [ c \in Calls |-> NewCall ]
    /\ sweep = [ j \in Jobs |-> [ pc |-> "idle", now |-> NULL ] ]
    /\ storeRet = [ returned |-> FALSE, value |-> FALSE ]
    /\ stats = NoStats
    /\ streak = {}
    /\ thrown = {}
    /\ swept = {}
    /\ base = NoBase
    /\ codec = NoCodec

SpecAgree == InitAgree /\ [][NextNoSweep]_vars

----------------------------------------------------------------------------
(* Reading the history kept in the calls *)

TheRow(rows) == CHOOSE r \in rows : TRUE

Redeems == { c \in Calls : call[c].op = "redeem" }
Checks == { c \in Calls : call[c].op = "check" }
Returned(c) == call[c].pc = "returned"
Error(c) == call[c].result.error

(* c is a redeem call that returned success. *)
Won(c) == c \in Redeems /\ Returned(c) /\ call[c].result.success

(* c is a redeem call whose conditional update has executed; it found a row *)
(* with its digest in the table.                                            *)
Updated(c) == c \in Redeems /\ call[c].pc \in { "select", "returned" }
MetRow(c) == Updated(c) /\ call[c].atUpdate # {}
RowMet(c) == TheRow(call[c].atUpdate)

(* The diagnostic read of c found the very row its update had found. *)
ReadSameRow(c) ==
    /\ MetRow(c) /\ Returned(c)
    /\ call[c].atSelect # {}
    /\ TheRow(call[c].atSelect).rid = RowMet(c).rid

----------------------------------------------------------------------------
(* C1: whatever the interleaving of redeem calls with check calls, inserts, *)
(* clock advances and cleanup, no token row is redeemed with success by two *)
(* different verifyAndConsumeToken calls.                                   *)
C1_AtMostOneSuccessPerRecord ==
    \A c1 \in Calls : \A c2 \in Calls :
        (Won(c1) /\ Won(c2) /\ RowMet(c1).rid = RowMet(c2).rid) => c1 = c2

(* A row that one call redeemed and another call, running its update on the *)
(* same row, failed to redeem.                                             *)
C1_Witness ==
    \E c1 \in Calls : \E c2 \in Calls :
        /\ Won(c1)
        /\ MetRow(c2) /\ Returned(c2) /\ ~ call[c2].result.success
        /\ RowMet(c2).rid = RowMet(c1).rid

(* C2: without cleanup, of the redeem calls whose update reaches a stored   *)
(* row that is unexpired for them, exactly one returns success and every    *)
(* other one returns ALREADY_USED.                                          *)
InTime(c) == MetRow(c) /\ Returned(c) /\ RowMet(c).expiresAt > call[c].now

C2_OneWinnerOthersAlreadyUsed ==
    \A c \in Calls :
        InTime(c) =>
            /\ call[c].result.success \/ Error(c) = "ALREADY_USED"
            /\ Cardinality({ w \in Calls : Won(w) /\ RowMet(w).rid = RowMet(c).rid }) = 1

(* Two overlapping calls on one row: the call issued first returned         *)
(* ALREADY_USED because the call issued after it had won.                   *)
C2_Witness ==
    \E c1 \in Calls : \E c2 \in Calls :
        /\ c1 < c2
        /\ Won(c2)
        /\ InTime(c1) /\ Error(c1) = "ALREADY_USED"
        /\ RowMet(c1).rid = RowMet(c2).rid

(* C3: a redeem call whose update finds the row unused and unexpired        *)
(* returns success; a redeem call that finds the row used, and still there  *)
(* at its diagnostic read, returns ALREADY_USED, expired or not.            *)
C3_SuccessOnceThenAlreadyUsed ==
    \A c \in Calls :
        (MetRow(c) /\ Returned(c)) =>
            /\ (~ RowMet(c).used /\ RowMet(c).expiresAt > call[c].now)
                   => call[c].result.success
            /\ (RowMet(c).used /\ ReadSameRow(c))
                   => Error(c) = "ALREADY_USED"

(* A second call on a redeemed row, made after the row's expiresAt. *)
C3_Witness ==
    \E c1 \in Calls : \E c2 \in Calls :
        /\ c1 < c2
        /\ Won(c1)
        /\ MetRow(c2) /\ RowMet(c2).rid = RowMet(c1).rid
        /\ RowMet(c2).expiresAt < call[c2].now
        /\ Error(c2) = "ALREADY_USED"

(* C4: a redeem call for which the stored row is expired (expiresAt <= its  *)
(* now) does not return success, and returns EXPIRED when its diagnostic    *)
(* read finds that row unused; no row is marked used by a call whose now is *)
(* at or after the row's expiresAt (usedAt is the now of the marking call). *)
TooLate(c) == MetRow(c) /\ RowMet(c).expiresAt <= call[c].now

C4_ExpiredNeverRedeemed ==
    /\ \A c \in Calls :
           TooLate(c) =>
               /\ ~ call[c].result.success
               /\ (ReadSameRow(c) /\ ~ TheRow(call[c].atSelect).used)
                      => Error(c) = "EXPIRED"
    /\ \A r \in tokens : r.used => r.usedAt < r.expiresAt

(* An expired, unused row and a call on it that returned EXPIRED. *)
C4_Witness ==
    \E c \in Calls :
        /\ TooLate(c) /\ ReadSameRow(c)
        /\ Error(c) = "EXPIRED"
        /\ \E r \in tokens : r.rid = RowMet(c).rid /\ ~ r.used

(* C5: a redeem call with a well-formed token whose digest has no row, at   *)
(* its update and at its diagnostic read, returns NOT_FOUND, and neither    *)
(* statement changes the table.                                             *)
C5_State ==
    \A c \in Redeems :
        (Returned(c) /\ validateTokenFormat(call[c].token)
            /\ call[c].atUpdate = {} /\ call[c].atSelect = {})
        => Error(c) = "NOT_FOUND"

C5_Step ==
    \A c \in Redeems :
        ( /\ call[c].pc \in { "update", "select" }
          /\ call'[c].pc # call[c].pc
          /\ SelectByHash(tokens, hashToken(call[c].token)) = {} )
        => tokens' = tokens

C5_NotFound == [] C5_State /\ [][C5_Step]_vars

(* A call that returned NOT_FOUND while another token's row was stored. *)
C5_Witness ==
    \E c \in Redeems :
        /\ Returned(c) /\ Error(c) = "NOT_FOUND"
        /\ call[c].atUpdate = {} /\ call[c].atSelect = {}
        /\ tokens # {}

(* C6: every stored row is either unused with usedAt null or used with      *)
(* usedAt set.                                                              *)
C6_UsedIffUsedAt ==
    \A r \in tokens :
        \/ r.used = FALSE /\ r.usedAt = NULL
        \/ r.used = TRUE /\ r.usedAt # NULL

(* A used and an unused row side by side, after a cleanup run has started. *)
C6_Witness ==
    /\ \E r \in tokens : r.used /\ r.usedAt # NULL
    /\ \E r \in tokens : ~ r.used /\ r.usedAt = NULL
    /\ sweep["daily"].pc # "idle"

(* C7: a used row stays used with the same usedAt for as long as it is in   *)
(* the table, and the only change a row ever undergoes is the flip from     *)
(* unused to used.                                                          *)
C7_Step ==
    \A r \in tokens : \A r2 \in tokens' :
        r2.rid = r.rid =>
            /\ r.used => (r2.used /\ r2.usedAt = r.usedAt)
            /\ r2 # r => (~ r.used /\ r2.used)

C7_UsedIsFinal == [][C7_Step]_vars

(* A row used at an earlier instant, still unexpired, on which a later call *)
(* was refused.                                                             *)
C7_Witness ==
    \E r \in tokens : \E c \in Calls :
        /\ r.used /\ r.usedAt < clock /\ r.expiresAt > clock
        /\ MetRow(c) /\ RowMet(c) = r /\ call[c].now = clock
        /\ Error(c) = "ALREADY_USED"

(* C8: a row keeps the expiresAt and userId it was inserted with; a step of *)
(* verifyAndConsumeToken changes nothing of the table but used and usedAt,  *)
(* and steps of checkTokenValidity and getTokenStats change no row at all.  *)
Unflagged(r) == [ r EXCEPT !.used = FALSE, !.usedAt = NULL ]

C8_Step ==
    /\ \A r \in tokens : \A r2 \in tokens' :
           r2.rid = r.rid =>
               /\ r2.expiresAt = r.expiresAt
               /\ r2.userId = r.userId
    /\ VerifyAndConsumeToken(Calls) =>
           { Unflagged(r) : r \in tokens' } = { Unflagged(r) : r \in tokens }
    /\ CheckTokenValidity(Calls) => tokens' = tokens
    /\ GetTokenStats => tokens' = tokens

C8_ExpiresAtNeverChanges == [][C8_Step]_vars

(* A row redeemed after its insert, counted as used by getTokenStats, with  *)
(* the expiry it was stored with.                                          *)
C8_Witness ==
    \E r \in tokens :
        /\ r.used
        /\ r.expiresAt = r.createdAt + DefaultExpiration
        /\ stats.userId = r.userId /\ stats.used = 1

(* C9: a step of checkTokenValidity leaves both tables as they are; check   *)
(* calls on one token, made with no clock advance and no step of any other  *)
(* operation since the first of them was issued, return the same result,    *)
(* and after a success the row is still unused.                             *)
C9_State ==
    /\ \A p \in streak : \A q \in streak :
           (Returned(p) /\ Returned(q) /\ call[p].token = call[q].token)
               => call[p].result = call[q].result
    /\ \A p \in streak :
           (Returned(p) /\ call[p].result.success) =>
               \E r \in tokens :
                   /\ r.tokenHash = hashToken(call[p].token)
                   /\ r.used = FALSE /\ r.usedAt = NULL

C9_Step == CheckTokenValidity(Calls) => (tokens' = tokens /\ sessions' = sessions)

C9_CheckDoesNotMutate == [] C9_State /\ [][C9_Step]_vars

(* Two check calls in a row on a valid token, both successful. *)
C9_Witness ==
    \E p \in streak : \E q \in streak :
        /\ p # q
        /\ Returned(p) /\ Returned(q)
        /\ call[p].token = call[q].token
        /\ call[p].result.success /\ call[q].result.success

(* C10: the select of checkTokenValidity decides the result by the table as *)
(* it is at that step: NOT_FOUND without a row for the digest, else         *)
(* ALREADY_USED for a used row, else EXPIRED for expiresAt <= now, else     *)
(* success with the row's userId.                                           *)
C10_Step ==
    \A c \in Calls :
        ( /\ call[c].op = "check"
          /\ call[c].pc = "lookup"
          /\ call'[c].pc = "returned" )
        => LET rows == { r \in tokens : r.tokenHash = hashToken(call[c].token) }
               res == call'[c].result
           IN  /\ rows = {} => res = Failure("NOT_FOUND")
               /\ \A r \in rows :
                      /\ r.used => res = Failure("ALREADY_USED")
                      /\ (~ r.used /\ r.expiresAt <= call[c].now)
                             => res = Failure("EXPIRED")
                      /\ (~ r.used /\ r.expiresAt > call[c].now)
                             => res = Success(r.userId)

C10_CheckDecides == [][C10_Step]_vars

(* A check call that found a row both used and expired and reported         *)
(* ALREADY_USED.                                                            *)
C10_Witness ==
    \E c \in Checks :
        /\ Returned(c) /\ Error(c) = "ALREADY_USED"
        /\ \E r \in call[c].atSelect : r.used /\ r.expiresAt <= call[c].now

(* C11: a verifyAndConsumeToken or checkTokenValidity call with a raw token *)
(* of the wrong length or with a character outside the URL-safe alphabet    *)
(* returns INVALID_FORMAT at once: it never comes to a store statement, has *)
(* read no row, and its only step leaves both tables as they are.           *)
Malformed(token) ==
    \/ Len(token) # ExpectedLength
    \/ \E i \in 1..Len(token) : token[i] \notin Base64UrlChars

C11_State ==
    \A c \in Calls :
        (call[c].op # "none" /\ Malformed(call[c].token)) =>
            /\ call[c].pc = "returned"
            /\ call[c].result = Failure("INVALID_FORMAT")
            /\ call[c].atUpdate = {} /\ call[c].atSelect = {}

C11_Step ==
    \A c \in Calls :
        (call'[c] # call[c] /\ Malformed(call'[c].token)) =>
            /\ call[c].pc = "new"
            /\ tokens' = tokens /\ sessions' = sessions

C11_InvalidFormatNoStoreAccess == [] C11_State /\ [][C11_Step]_vars

(* A redeem call and a check call, both refused for the format while a row  *)
(* is stored.                                                               *)
C11_Witness ==
    \E c1 \in Redeems : \E c2 \in Checks :
        /\ Returned(c1) /\ Error(c1) = "INVALID_FORMAT"
        /\ Returned(c2) /\ Error(c2) = "INVALID_FORMAT"
        /\ tokens # {}

(* C12: the step in which verifyAndConsumeToken runs its conditional update *)
(* yields success exactly when the table holds a row with the call's digest, *)
(* used = false and expiresAt > the call's now; that same step then replaces *)
(* the row by itself with used = true and usedAt = now, and the result       *)
(* carries the row's userId.  No other step makes a call successful.         *)
C12_Step ==
    \A c \in Calls :
        /\ ( call[c].op = "redeem" /\ call[c].pc = "update"
                /\ call'[c].pc # "update" ) =>
              LET matched ==
                      { r \in tokens : /\ r.tokenHash = hashToken(call[c].token)
                                       /\ r.used = FALSE
                                       /\ r.expiresAt > call[c].now }
              IN  /\ call'[c].result.success <=> matched # {}
                  /\ Cardinality(matched) <= 1
                  /\ \A r \in matched :
                         /\ call'[c].pc = "returned"
                         /\ call'[c].result = Success(r.userId)
                         /\ tokens' = (tokens \ { r }) \cup
                                { [ r EXCEPT !.used = TRUE, !.usedAt = call[c].now ] }
                  /\ matched = {} => tokens' = tokens
        /\ ( call'[c].op = "redeem" /\ call'[c].result.success
                /\ ~ call[c].result.success ) =>
              call[c].pc = "update"

C12_SuccessIffUpdateMatched == [][C12_Step]_vars

(* A call that read its now, won at a later instant, and whose row carries  *)
(* that earlier now as usedAt and the returned userId.                      *)
C12_Witness ==
    \E c \in Calls : \E r \in tokens :
        /\ Won(c) /\ r.rid = RowMet(c).rid
        /\ r.used /\ r.usedAt = call[c].now
        /\ call[c].result.userId = r.userId
        /\ r.createdAt > call[c].now

(* C13: a storeToken call returns a boolean.  When it returns true the      *)
(* table has gained exactly one row, with the given digest, userId and      *)
(* expiresAt, used = false and usedAt null; when it returns false the table *)
(* is as it was.  It returns false when the user does not exist, and true   *)
(* when the user exists and the digest is not stored yet.                   *)
C13_Step ==
    \A req \in Issued : \A ttl \in TTLs :
        storeToken(req[1], req[2], clock + ttl) =>
            /\ storeRet'.returned
            /\ storeRet'.value = TRUE =>
                   /\ tokens \subseteq tokens'
                   /\ Cardinality(tokens' \ tokens) = 1
                   /\ \A r \in tokens' \ tokens :
                          /\ r.tokenHash = req[1] /\ r.userId = req[2]
                          /\ r.expiresAt = clock + ttl
                          /\ r.used = FALSE /\ r.usedAt = NULL
            /\ storeRet'.value = FALSE => tokens' = tokens
            /\ req[2] \notin Users => storeRet'.value = FALSE
            /\ ( req[2] \in Users
                    /\ \A r \in tokens : r.tokenHash # req[1] ) =>
                   storeRet'.value = TRUE

C13_StoreTokenResult == [][C13_Step]_vars

(* storeToken has returned false for the unknown user: nothing was ever     *)
(* inserted, so no refusal was for a digest already stored.                 *)
C13_Witness ==
    /\ storeRet.returned /\ storeRet.value = FALSE
    /\ nextRid = 1 /\ tokens = {}

(* C14 as stated: every failure result of verifyAndConsumeToken and         *)
(* checkTokenValidity carries one of INVALID_FORMAT, NOT_FOUND, EXPIRED,    *)
(* ALREADY_USED, STORAGE_ERROR, and a failed store statement is reported as *)
(* STORAGE_ERROR.                                                           *)
FailureCodes(infrastructure) ==
    { "INVALID_FORMAT", "NOT_FOUND", "EXPIRED", "ALREADY_USED", infrastructure }

C14_Codes(infrastructure) ==
    \A c \in Calls :
        (Returned(c) /\ ~ call[c].result.success) =>
            Error(c) \in FailureCodes(infrastructure)

C14_FailStep(infrastructure) ==
    \A c \in Calls :
        (RedeemFails(c) \/ CheckFails(c)) =>
            call'[c].result = Failure(infrastructure)

C14_Original ==
    [] C14_Codes("STORAGE_ERROR") /\ [][C14_FailStep("STORAGE_ERROR")]_vars

(* C14 as amended: every failure result of verifyAndConsumeToken and        *)
(* checkTokenValidity carries one of INVALID_FORMAT, NOT_FOUND, EXPIRED,    *)
(* ALREADY_USED, DATABASE_ERROR, and a failed store statement is reported   *)
(* as DATABASE_ERROR.                                                       *)
C14_ErrorCodes ==
    [] C14_Codes("DATABASE_ERROR") /\ [][C14_FailStep("DATABASE_ERROR")]_vars

(* A redeem call whose update failed while the row it asked for was stored, *)
(* unused and unexpired.                                                    *)
C14_Witness ==
    \E c \in Redeems : \E r \in tokens :
        /\ Returned(c) /\ Error(c) = "DATABASE_ERROR"
        /\ call[c].atUpdate = {} /\ call[c].atSelect = {}
        /\ r.tokenHash = hashToken(call[c].token)
        /\ r.used = FALSE /\ r.expiresAt > clock /\ r.createdAt < call[c].now

(* C15: with no failing store statement, a verifyAndConsumeToken call whose *)
(* update touched no row returns one of NOT_FOUND, ALREADY_USED, EXPIRED,   *)
(* and no call returns the infrastructure code.                             *)
C15_ZeroRowsPreciseReason ==
    \A c \in Redeems :
        ( /\ Returned(c) /\ ~ call[c].result.success
          /\ Error(c) # "INVALID_FORMAT" ) =>
            Error(c) \in { "NOT_FOUND", "ALREADY_USED", "EXPIRED" }

(* C16: verifyAndConsumeToken, checkTokenValidity, storeToken and           *)
(* getTokenStats let no exception escape, whichever of their store          *)
(* statements fail: every call that has ended has returned a result with    *)
(* success or an error code, and a failing statement ends the call with a   *)
(* failure result, false, or all-zero statistics.                           *)
Guarded ==
    { "verifyAndConsumeToken", "checkTokenValidity", "storeToken", "getTokenStats" }

C16_State ==
    /\ thrown \cap Guarded = {}
    /\ \A c \in Calls :
           /\ call[c].pc # "thrown"
           /\ Returned(c) =>
                  \/ call[c].result.success /\ call[c].result.userId \in Users
                  \/ ~ call[c].result.success
                        /\ Error(c) \in FailureCodes("DATABASE_ERROR")

C16_Step ==
    /\ \A c \in Calls :
           (RedeemFails(c) \/ CheckFails(c)) =>
               (call'[c].pc = "returned" /\ ~ call'[c].result.success)
    /\ StoreTokenFails => (storeRet'.returned /\ storeRet'.value = FALSE)
    /\ GetTokenStatsFails =>
           (stats'.total = 0 /\ stats'.used = 0 /\ stats'.expired = 0
               /\ stats'.active = 0)

C16_NoExceptionEscapes == [] C16_State /\ [][C16_Step]_vars

(* A check call ended by a failed select has returned, in a run where a     *)
(* failed delete made the cleanup script throw.                             *)
C16_Witness ==
    /\ \E c \in Checks : Returned(c) /\ Error(c) = "DATABASE_ERROR"
    /\ "cleanupExpiredTokensAndSessions" \in thrown

(* C17: a getTokenStats(userId) call returns, for the table and the clock   *)
(* of the instant it is evaluated at, total = the user's rows, used = those *)
(* with used = true whatever their expiry, active = the unused ones with    *)
(* expiresAt > now, expired = the unused ones with expiresAt <= now; the    *)
(* three add up to total, a user without rows gets four zeros, and no row   *)
(* changes.                                                                 *)
Owned(userId) == { r \in tokens : r.userId = userId }

C17_Step ==
    \A userId \in Users \cup { UnknownUser } :
        getTokenStats(userId) =>
            /\ stats'.total = Cardinality(Owned(userId))
            /\ stats'.used = Cardinality({ r \in Owned(userId) : r.used })
            /\ stats'.active =
                   Cardinality({ r \in Owned(userId) : ~ r.used /\ r.expiresAt > clock })
            /\ stats'.expired =
                   Cardinality({ r \in Owned(userId) : ~ r.used /\ r.expiresAt <= clock })
            /\ stats'.active + stats'.used + stats'.expired = stats'.total
            /\ Owned(userId) = {} =>
                   (stats'.total = 0 /\ stats'.used = 0 /\ stats'.active = 0
                       /\ stats'.expired = 0)
            /\ tokens' = tokens

C17_StatsCounts == [][C17_Step]_vars

(* Statistics of a user with two rows: one used and past its expiry, one    *)
(* unused and unexpired.                                                    *)
C17_Witness ==
    /\ stats.total = 2 /\ stats.used = 1 /\ stats.active = 1 /\ stats.expired = 0
    /\ \E r \in tokens :
           r.userId = stats.userId /\ r.used /\ r.expiresAt <= clock
    /\ \E r \in tokens :
           r.userId = stats.userId /\ ~ r.used /\ r.expiresAt > clock

(* C18: with now the instant a cleanup run read at its start, its first     *)
(* delete removes exactly the token rows with expiresAt < now, its second   *)
(* exactly the session rows with expiresAt < now, its third exactly the     *)
(* token rows used more than 30 days before now; each leaves every other    *)
(* row as it is, and no step of any operation removes a token row that is   *)
(* unused and expires in the future.                                        *)
C18_Step ==
    /\ \A j \in Jobs :
           Cleanup(j) =>
               LET now == sweep[j].now
               IN  /\ sweep[j].pc = "idle" =>
                          (tokens' = tokens /\ sessions' = sessions)
                   /\ sweep[j].pc = "expiredTokens" =>
                          /\ tokens' = { r \in tokens : ~ (r.expiresAt < now) }
                          /\ sessions' = sessions
                   /\ sweep[j].pc = "expiredSessions" =>
                          /\ sessions' = { r \in sessions : ~ (r.expiresAt < now) }
                          /\ tokens' = tokens
                   /\ sweep[j].pc = "oldUsedTokens" =>
                          /\ tokens' = { r \in tokens :
                                           ~ (r.used /\ r.usedAt + RetentionWindow < now) }
                          /\ sessions' = sessions
    /\ \A r \in tokens :
           (~ r.used /\ r.expiresAt > clock) =>
               \E r2 \in tokens' : r2.rid = r.rid

C18_CleanupDeletesExactly == [][C18_Step]_vars

(* A run started past the retention window has done its token pass and not  *)
(* yet its session pass: of two inserted rows one is gone, and the one that *)
(* is left is unused and expires later.                                     *)
C18_Witness ==
    /\ sweep["daily"].pc = "expiredSessions"
    /\ sweep["daily"].now = RetentionWindow + 1
    /\ sessions = InitSessions
    /\ nextRid = 3 /\ Cardinality(tokens) = 1
    /\ \A r \in tokens : ~ r.used /\ r.expiresAt > sweep["daily"].now

(* C19: a failing delete does not keep the other deletes of the sweeper     *)
(* from being carried out: a cleanup run whose delete of expired rows has   *)
(* failed still comes to its delete of old used tokens, so no run ends      *)
(* before that delete.  (The delete of expired rows precedes the delete of  *)
(* old used tokens, so a failure of the latter cannot keep the former from  *)
(* running.)                                                                *)
C19_Step ==
    \A j \in Jobs :
        sweep[j].pc \in { "expiredTokens", "expiredSessions" } =>
            sweep'[j].pc # "idle"

C19_PassesIndependent == [][C19_Step]_vars

(* C20 as stated: a verifyAndConsumeToken call whose row a cleanup delete removed     *)
(* after the call had started and before its update ran returns NOT_FOUND,  *)
(* whatever storeToken, checkTokenValidity, verifyAndConsumeToken and       *)
(* cleanup steps come in between.                                           *)
C20_SweptMeansNotFound ==
    \A c \in swept :
        Returned(c) => call[c].result = Failure("NOT_FOUND")

(* C20 as amended: such a call returns NOT_FOUND unless a row with the same *)
(* digest is stored again before its update or its diagnostic read: when    *)
(* neither statement finds a row the result is NOT_FOUND, and any other     *)
(* result comes with a row that was inserted after the call had started.    *)
C20_NotFoundUnlessStoredAgain ==
    \A c \in swept :
        Returned(c) =>
            /\ (call[c].atUpdate = {} /\ call[c].atSelect = {})
                   => call[c].result = Failure("NOT_FOUND")
            /\ call[c].result # Failure("NOT_FOUND")
                   => \E r \in call[c].atUpdate \cup call[c].atSelect :
                          r.createdAt >= call[c].now

(* A call started on a stored row, which cleanup deleted before the update: *)
(* the call has returned NOT_FOUND.                                         *)
C20_Witness ==
    \E c \in swept :
        /\ Returned(c) /\ Error(c) = "NOT_FOUND"
        /\ call[c].now < clock
        /\ nextRid = 2 /\ tokens = {}

----------------------------------------------------------------------------
(* C21: two cleanup runs, one after the other or with their deletes        *)
(* interleaved, with no clock advance and no other write to the tables     *)
(* since the hourly run started, leave the tables as one run alone leaves  *)
(* them.                                                                   *)
C21_CleanupIdempotent ==
    (base # NoBase /\ \A j \in Jobs : sweep[j].pc = "idle")
        => (tokens = base.tokens /\ sessions = base.sessions)

(* The hourly run has ended and removed token rows; the daily run, with the *)
(* same now, has executed two of its deletes on what the hourly run left.   *)
C21_Witness ==
    /\ base # NoBase /\ base.removed # {}
    /\ sweep["hourly"].pc = "idle"
    /\ sweep["daily"].pc = "oldUsedTokens" /\ sweep["daily"].now = base.now
    /\ tokens = base.tokens /\ sessions = base.sessions
----------------------------------------------------------------------------
(* The step is a call of the codec function fn, with a record of it that *)
(* differs from the one before; a step of anything else keeps the record. *)
CodecStep(fn) == codec'.fn = fn /\ (codec.fn = fn => codec' # codec)
CodecKept == codec'.fn = codec.fn /\ codec' = codec

(* C22: generateTokenForUser leaves the tables as they are and returns a    *)
(* raw token, the digest of that token, the given userId and expiresAt =    *)
(* now + ttl, the ttl being one hour when none is given; a row is added to  *)
(* the token table only by a storeToken step, which is no codec call.       *)
C22_Step ==
    /\ CodecStep("generateTokenForUser") =>
           /\ tokens' = tokens /\ sessions' = sessions
           /\ ~ codec'.result.threw
           /\ ~ Malformed(codec'.result.token)
           /\ codec'.result.hash = hashToken(codec'.result.token)
           /\ codec'.result.userId = codec'.args[1]
           /\ codec'.result.expiresAt =
                  clock + (IF codec'.args[2] = NULL
                           THEN 60 * 60
                           ELSE codec'.args[2])
    /\ ~ (tokens' \subseteq tokens) =>
           /\ CodecKept
           /\ storeRet' = [ returned |-> TRUE, value |-> TRUE ]

C22_IssueIsPure == [][C22_Step]_vars

(* A token was issued after the clock advanced, with no timeout given, and *)
(* the table holds no row with its digest.                                *)
C22_Witness ==
    /\ codec.fn = "generateTokenForUser"
    /\ codec.args[2] = NULL
    /\ clock > 0
    /\ codec.result.expiresAt = clock + 60 * 60
    /\ SelectByHash(tokens, codec.result.hash) = {}
----------------------------------------------------------------------------
(* C23: validateTokenFormat returns true exactly for the candidates of 16  *)
(* characters, each in [A-Za-z0-9_-]; generateOneTimeToken does not throw   *)
(* and every token it returns is such a candidate and is accepted.          *)
C23_ValidatesExactly ==
    /\ codec.fn = "validateTokenFormat" =>
           (codec.result <=> ~ Malformed(codec.args[1]))
    /\ codec.fn = "generateOneTimeToken" =>
           /\ ~ codec.result.threw
           /\ ~ Malformed(codec.result.token)
           /\ validateTokenFormat(codec.result.token)

(* validateTokenFormat accepted the token generated from twelve bytes of *)
(* one bits, sixteen characters of the last value of the alphabet.       *)
C23_Witness ==
    /\ codec.fn = "validateTokenFormat"
    /\ codec.args[1] = generateOneTimeToken(BytesHigh).token
    /\ codec.args[1] = [ i \in 1..16 |-> "_" ]
    /\ codec.result
----------------------------------------------------------------------------
(* C24: distinct raw tokens have distinct digests, and a call reads as     *)
(* found only rows whose digest is that of the token it was given and of    *)
(* no other raw token; its steps leave the rows of every other raw token's  *)
(* digest as they are.                                                      *)
C24_State ==
    /\ \A t \in RawTokens : \A u \in RawTokens :
           hashToken(t) = hashToken(u) => t = u
    /\ \A c \in Calls : \A r \in call[c].atUpdate \cup call[c].atSelect :
           \A t \in RawTokens : r.tokenHash = hashToken(t) => t = call[c].token

C24_Step ==
    \A c \in Calls :
        call'[c].pc # call[c].pc =>
            \A t \in RawTokens \ { call'[c].token } :
                { r \in tokens' : r.tokenHash = hashToken(t) }
                    = { r \in tokens : r.tokenHash = hashToken(t) }

C24_OtherTokensRowUntouched == [] C24_State /\ [][C24_Step]_vars

(* A check call given one sample token returned NOT_FOUND, having read no *)
(* row, while the unused row stored for the other sample token is there.  *)
C24_Witness ==
    \E c \in Checks :
        /\ Returned(c) /\ Error(c) = "NOT_FOUND"
        /\ call[c].token = TokA /\ call[c].atSelect = {}
        /\ \E r \in tokens : r.tokenHash = hashToken(TokB) /\ ~ r.used
----------------------------------------------------------------------------
(* C25: verifyTokenHash returns a boolean for every token and stored hash: *)
(* true exactly when the stored hash is the digest of the token, false      *)
(* otherwise, also for a stored hash that is not 64 hex characters.         *)
C25_VerifyTokenHashTotal ==
    codec.fn = "verifyTokenHash" =>
        /\ ~ codec.result.threw
        /\ codec.result.value
               <=> (codec.args[2] = DigestHex(hashToken(codec.args[1])))
----------------------------------------------------------------------------
(* C26: no stored row holds a raw token: the tokenHash of every row, and   *)
(* of every row a call's update or read was keyed to, is the digest of a    *)
(* raw token and the text of none, and the other fields are numbers and     *)
(* booleans.                                                                *)
C26_RawTokenNeverStored ==
    /\ \A r \in tokens :
           /\ \A t \in RawTokens : r.tokenHash # RawText(t)
           /\ \E t \in RawTokens : r.tokenHash = hashToken(t)
           /\ DOMAIN r = { "rid", "tokenHash", "userId", "expiresAt", "used",
                           "usedAt", "createdAt" }
           /\ r.rid \in Int /\ r.userId \in Int /\ r.expiresAt \in Int
           /\ r.usedAt \in Int /\ r.createdAt \in Int /\ r.used \in BOOLEAN
    /\ \A c \in Calls : \A r \in call[c].atUpdate \cup call[c].atSelect :
           /\ r.tokenHash = hashToken(call[c].token)
           /\ r.tokenHash # RawText(call[c].token)

(* A redeem call given the first sample token has consumed the row stored *)
(* under that token's digest, and a check call has read that row since.   *)
C26_Witness ==
    \E c \in Redeems : \E d \in Checks :
        /\ Won(c) /\ call[c].token = TokA
        /\ Returned(d) /\ call[d].atSelect # {}
        /\ \A r \in call[c].atUpdate \cup call[d].atSelect :
               r.tokenHash = "sha256:7c1e"
        /\ \E r \in tokens : r.tokenHash = "sha256:7c1e" /\ r.used
----------------------------------------------------------------------------
(* C27: once a row is used, or once a verifyAndConsumeToken or              *)
(* checkTokenValidity call has returned EXPIRED on reading it, no           *)
(* verifyAndConsumeToken call succeeds on that row, the calls that had read *)
(* their now before EXPIRED was returned included.                          *)
ReportedExpired(rid) ==
    \E d \in Calls :
        /\ Returned(d) /\ Error(d) = "EXPIRED"
        /\ \E q \in call[d].atSelect : q.rid = rid

C27_Step ==
    \A c \in Calls :
        ( /\ call[c].op = "redeem" /\ call[c].pc = "update"
          /\ call'[c].result.success ) =>
            \A r \in tokens :
                (\E q \in tokens' : q.rid = r.rid /\ q.used # r.used) =>
                    ~ r.used /\ ~ ReportedExpired(r.rid)

C27_UsedAndExpiredAreTerminal == [][C27_Step]_vars
----------------------------------------------------------------------------
(* C28: when the store answers every statement, a call that has sent a      *)
(* statement returns; verifyAndConsumeToken sends its conditional update    *)
(* and then one read exactly when the update changed no row,                *)
(* checkTokenValidity sends one select, storeToken and getTokenStats return *)
(* in the step of their one statement, and the statement of a call can      *)
(* execute whatever the other calls are doing.                              *)
C28_Live ==
    \A c \in Calls :
        (call[c].pc \in { "update", "select", "lookup" }) ~> (call[c].pc = "returned")

C28_Step ==
    /\ \A c \in Calls :
           call'[c].pc # call[c].pc =>
               \/ /\ call[c].pc = "new"
                  /\ \/ call'[c].op = "redeem" /\ call'[c].pc = "update"
                     \/ call'[c].op = "check" /\ call'[c].pc = "lookup"
                     \/ call'[c].pc = "returned" /\ call'[c].result.error = "INVALID_FORMAT"
                  /\ tokens' = tokens
               \/ /\ call[c].op = "redeem" /\ call[c].pc = "update"
                  /\ \/ call'[c].pc = "returned" /\ tokens' # tokens
                     \/ call'[c].pc = "select" /\ tokens' = tokens
               \/ call[c].op = "redeem" /\ call[c].pc = "select" /\ call'[c].pc = "returned"
               \/ call[c].op = "check" /\ call[c].pc = "lookup" /\ call'[c].pc = "returned"
    /\ tokens' # tokens =>
           \/ storeRet'.returned /\ call' = call
           \/ \E c \in Calls : call[c].pc = "update" /\ call'[c].pc = "returned"
    /\ stats' # stats => stats'.userId # NULL /\ tokens' = tokens /\ call' = call

C28_Enabled ==
    \A c \in Calls :
        /\ (call[c].op = "redeem" /\ call[c].pc = "update") => ENABLED RedeemUpdate(c)
        /\ (call[c].op = "redeem" /\ call[c].pc = "select") => ENABLED RedeemSelect(c)
        /\ (call[c].op = "check" /\ call[c].pc = "lookup") => ENABLED CheckLookup(c)

C28_CallsTerminate == C28_Live /\ [] C28_Enabled /\ [][C28_Step]_vars

(* Two redeem calls had both sent their update; one has returned after its *)
(* update alone, the other after its update and the read that followed.    *)
C28_Witness ==
    \E c \in Redeems : \E d \in Redeems :
        /\ Won(c) /\ call[c].atSelect = {}
        /\ Returned(d) /\ Error(d) = "ALREADY_USED" /\ call[d].atSelect # {}
        /\ call[d].now <= call[c].now
        /\ stats.total > 0
----------------------------------------------------------------------------
(* C29: a step of the hourly job's cleanup leaves the token table as it is; *)
(* token rows are removed only by steps of the daily job's cleanup.         *)
C29_Step ==
    /\ Cleanup("hourly") => tokens' = tokens
    /\ (\E r \in tokens : \A q \in tokens' : q.rid # r.rid) => Cleanup("daily")

C29_HourlyLeavesTokens == [][C29_Step]_vars

----------------------------------------------------------------------------
(* C30: no row is flipped to used in a step taken when the clock is at or  *)
(* past the row's expiresAt.                                                *)
C30_Step ==
    \A r \in tokens : \A q \in tokens' :
        (q.rid = r.rid /\ ~ r.used /\ q.used) => clock < r.expiresAt

C30_NoFlipAfterExpiry == [][C30_Step]_vars
----------------------------------------------------------------------------
(* C31: every used row has its usedAt set, strictly before its expiresAt. *)
C31_UsedBeforeExpiry ==
    \A r \in tokens :
        r.used = TRUE => (r.usedAt # NULL /\ r.expiresAt - r.usedAt > 0)

(* A used row, consumed by a call that read its now before the row expired *)
(* and marked after it: the clock is past expiresAt, usedAt before it.     *)
C31_Witness ==
    \E r \in tokens :
        /\ r.used = TRUE /\ r.usedAt < r.expiresAt /\ r.expiresAt <= clock
        /\ \E c \in Redeems : Won(c) /\ RowMet(c).rid = r.rid /\ call[c].now = r.usedAt

----------------------------------------------------------------------------
(* C32: every used row has its usedAt at or after its createdAt, also when *)
(* the row was inserted while the call that consumed it was in progress.    *)
C32_UsedAfterCreated ==
    \A r \in tokens : r.used = TRUE => r.usedAt >= r.createdAt

----------------------------------------------------------------------------
(* C33: a storeToken call whose digest already has a row returns false and *)
(* leaves the table as it is: the row keeps its used, usedAt, expiresAt and *)
(* userId, and no second row with the digest appears.                       *)
C33_Step ==
    \A req \in Issued : \A ttl \in TTLs :
        ( /\ storeToken(req[1], req[2], clock + ttl)
          /\ \E r \in tokens : r.tokenHash = req[1] ) =>
            /\ storeRet' = [ returned |-> TRUE, value |-> FALSE ]
            /\ tokens' = tokens

C33_State ==
    \A r \in tokens : \A q \in tokens : r.tokenHash = q.tokenHash => r = q

C33_DuplicateStoreRefused == [] C33_State /\ [][C33_Step]_vars

(* The one row ever inserted is that of the second sample token, and the  *)
(* storeToken call made since, which could only name its digest, returned *)
(* false.                                                                 *)
C33_Witness ==
    /\ storeRet = [ returned |-> TRUE, value |-> FALSE ]
    /\ nextRid = 2
    /\ \E r \in tokens : tokens = { r } /\ r.tokenHash = hashToken(TokB) /\ r.rid = 1
----------------------------------------------------------------------------
(* C34, as stated: no raw token is redeemed with success by two calls, *)
(* whatever happened to its rows in between.                           *)
C34_OncePerRawToken ==
    \A c \in Redeems : \A d \in Redeems :
        (Won(c) /\ Won(d) /\ call[c].token = call[d].token) => c = d

(* C34, amended: a raw token is redeemed with success at most once per    *)
(* row stored for its digest; two successful calls with one token have    *)
(* consumed two rows, inserted one after the other, and the earlier row   *)
(* is no longer in the table.                                             *)
C34_OncePerStoredRecord ==
    \A c \in Redeems : \A d \in Redeems :
        (Won(c) /\ Won(d) /\ call[c].token = call[d].token /\ c # d) =>
            LET first == IF RowMet(c).rid < RowMet(d).rid THEN RowMet(c) ELSE RowMet(d)
            IN  /\ RowMet(c).rid # RowMet(d).rid
                /\ RowMet(c).tokenHash = RowMet(d).tokenHash
                /\ \A r \in tokens : r.rid # first.rid

(* Two calls with the same token both returned success, the second on a *)
(* row stored after cleanup had deleted the row the first consumed.     *)
C34_Witness ==
    \E c \in Redeems : \E d \in Redeems :
        /\ Won(c) /\ Won(d) /\ call[c].token = call[d].token
        /\ RowMet(c).rid = 1 /\ RowMet(d).rid = 2
        /\ RowMet(c).usedAt = NULL /\ RowMet(d).createdAt > RowMet(c).expiresAt
        /\ \E r \in tokens : r.rid = 2 /\ r.used
----------------------------------------------------------------------------
(* C35: a getTokenStats call whose query fails returns total, active, used *)
(* and expired all 0 and nothing else, the value returned for a user with   *)
(* no row, and lets no exception escape; it changes no table.               *)
C35_Step ==
    GetTokenStatsFails =>
        /\ stats'.total = 0 /\ stats'.active = 0
        /\ stats'.used = 0 /\ stats'.expired = 0
        /\ DOMAIN stats' = { "userId", "total", "active", "used", "expired" }
        /\ stats' = CountRows({}, stats'.userId)
        /\ thrown' = thrown
        /\ tokens' = tokens /\ sessions' = sessions

C35_StatsFailureLooksEmpty == [][C35_Step]_vars

(* All-zero statistics on record, with no exception escaped, for a user *)
(* who has a used row inserted before the present instant.               *)
C35_Witness ==
    /\ stats.userId \in Users
    /\ stats.total = 0 /\ stats.active = 0 /\ stats.used = 0 /\ stats.expired = 0
    /\ "getTokenStats" \notin thrown
    /\ \E r \in tokens : r.userId = stats.userId /\ r.used /\ r.createdAt < clock
----------------------------------------------------------------------------
(* C36: a row that a check or redeem call reports EXPIRED with its now at t *)
(* is among the rows the first delete of a cleanup run with now at t takes, *)
(* the row with expiresAt = t included.                                     *)
C36_SweeperAgreesOnExpired ==
    \A c \in Calls :
        (Returned(c) /\ Error(c) = "EXPIRED") =>
            \A r \in call[c].atSelect : r \in ExpiredTokens({ r }, call[c].now)

(* C36, amended: of the rows reported EXPIRED with now at t, the first     *)
(* delete of a cleanup run with now at t takes those with expiresAt before  *)
(* t; the row with expiresAt = t is left by that run and taken by a run     *)
(* with a later now.                                                        *)
C36_SweeperAgreesBeforeBoundary ==
    \A c \in Calls :
        (Returned(c) /\ Error(c) = "EXPIRED") =>
            \A r \in call[c].atSelect :
                /\ r.expiresAt <= call[c].now
                /\ r.expiresAt < call[c].now => ExpiredTokens({ r }, call[c].now) = { r }
                /\ r.expiresAt = call[c].now =>
                       /\ ExpiredTokens({ r }, call[c].now) = {}
                       /\ ExpiredTokens({ r }, call[c].now + 1) = { r }

(* A call reported EXPIRED for a row expiring at the call's now; a cleanup *)
(* run with that same now is past its first delete and the row is there.   *)
C36_Witness ==
    \E c \in Calls : \E r \in tokens :
        /\ Returned(c) /\ Error(c) = "EXPIRED"
        /\ r \in call[c].atSelect /\ r.expiresAt = call[c].now
        /\ sweep["daily"].pc = "expiredSessions"
        /\ sweep["daily"].now = call[c].now

(* C37: a step of a verifyAndConsumeToken call changes the token table only *)
(* when it is the step that returns success, and then by setting used and   *)
(* usedAt on one unused row with the call's digest; every other step of a   *)
(* redeem call, the steps that end in a failure result or in the            *)
(* infrastructure error included, leaves every row and session as it was.   *)
C37_Step ==
    \A c \in Calls :
        (call'[c] # call[c] /\ call'[c].op = "redeem") =>
            /\ sessions' = sessions
            /\ nextRid' = nextRid
            /\ IF call'[c].pc = "returned" /\ call'[c].result.success
               THEN \E r \in tokens :
                        /\ r.used = FALSE
                        /\ r.tokenHash = hashToken(call'[c].token)
                        /\ tokens' = (tokens \ { r }) \cup
                               { [ r EXCEPT !.used = TRUE, !.usedAt = call[c].now ] }
               ELSE tokens' = tokens

C38_SameConditions(d, c) ==
    /\ d \in Checks /\ c \in Redeems
    /\ Returned(d) /\ Returned(c)
    /\ call[c].token = call[d].token
    /\ call[c].now = call[d].now
    /\ call[c].atUpdate = call[d].atSelect
    /\ call[c].result.success \/ call[c].atSelect = call[c].atUpdate

C38_CheckAgreesWithRedeem ==
    \A d \in Calls : \A c \in Calls :
        C38_SameConditions(d, c) =>
            /\ call[c].result.success = call[d].result.success
            /\ call[c].result.userId = call[d].result.userId
            /\ call[c].result.error = call[d].result.error

(* A check call returned success for a token and the redeem call invoked   *)
(* after it at the same instant, on the same row, returned success too.    *)
C38_Witness ==
    \E d \in Calls : \E c \in Calls :
        /\ d < c
        /\ C38_SameConditions(d, c)
        /\ call[d].result.success
        /\ call[c].result.success
        /\ call[c].result.userId \in Users
====
